---- MODULE Spec2Model ----
(***************************************************************************)
(* Lumina Design AI: the conversation orchestrator of src/App.tsx, the    *)
(* chat-session holder of src/services/geminiService.ts and the viewer of  *)
(* src/components/CompareSlider.tsx, as a state machine.                   *)
(* One action per event handler or per continuation of an async            *)
(* handler after an await: JavaScript runs each of them to the next await  *)
(* without interruption, so each is one atomic step.                       *)
(*                                                                         *)
(* A handler can run when the `disabled` attribute of its control allows   *)
(* it; the guards inside the handlers (`if (!originalImage)`, the trim     *)
(* test) are modelled as the branches they are.  A handler suspended at an *)
(* await is an element of ops: it keeps the values its closure captured    *)
(* and resumes in any order with the others.  The photo payload has one    *)
(* value; what tells two sessions apart is the mark `stale`, set on every  *)
(* suspended invocation when reader.onload starts the next session.        *)
(*                                                                         *)
(* The CompareSlider exists while App renders it; its state is held at     *)
(* the initial values while it does not.  Its window listeners follow      *)
(* isDragging (the effect runs with the render that a press or a release   *)
(* causes, its cleanup also when the viewer is unmounted).  A Number is an *)
(* exact fraction, or NaN.                                                 *)
(***************************************************************************)
EXTENDS Integers, Sequences, FiniteSets, TLC

\* ---------------------------------------------------------------- bounds
MaxClock == 2      \* Date.now() takes the values 1..MaxClock
MaxTurns == 4      \* longest chat history explored
MaxOps == 2        \* handler invocations suspended at once

\* The widest container explored, in pixels.
MaxWidth == 2

\* ---------------------------------------------------------------- inputs
Photos == {"A"}                      \* room photos the user can pick
Styles == {"modern"}                 \* the preset of STYLES the user clicks
Inputs == {"", " ", "blue"}          \* what the user types into the chat box
Descs == {"blue walls"}              \* visualDescription of a tool call
Replies == {"try teak"}              \* non-empty text replies of the advisor

StylePrompt(style) ==
  IF style = "modern" THEN "sleek Modern style" ELSE "Scandinavian style"

StyleName(style) == IF style = "modern" THEN "Modern" ELSE "Scandinavian"

\* ---------------------------------------------------------------- values
\* An image payload: the photo it shows, how many generations were applied
\* to it (0: the uploaded photo itself) and the prompt of the last one.
Null == [of |-> "null", gen |-> 0, prompt |-> "null"]

Photo(p) == [of |-> p, gen |-> 0, prompt |-> "null"]

\* What generateReimaginedImage resolves with for (source image, prompt).
Generated(src, prompt) == [of |-> src.of, gen |-> src.gen + 1, prompt |-> prompt]

\* chatInput.trim(): the blank input trims to the empty string.
Trim(s) == IF s = " " THEN "" ELSE s

\* Date.now().toString() of clock value n; 'init' is no decimal string.
MsId(n) == <<"ms", n>>

InitId == <<"init", 0>>

\* A ChatMessage; text is a template and the value interpolated into it.
Msg(id, role, template, arg, isError) ==
  [id |-> id, role |-> role, text |-> <<template, arg>>, isError |-> isError]

Welcome == Msg(InitId, "model", "Hi! I'm your AI Interior Design Consultant", "", FALSE)

\* ---------------------------------------------------------------- CompareSlider values
\* getBoundingClientRect() of the container: width 0 is a container that has
\* not been laid out.
Widths == 0 .. MaxWidth
Lefts == {0, 1}

\* clientX of a mouse or touch event: left of, inside and right of the container.
ClientXs == -1 .. MaxWidth + 2

RECURSIVE GCD(_, _)
GCD(a, b) == IF b = 0 THEN a ELSE GCD(b, a % b)

\* A JavaScript Number: the rational n/d in lowest terms, or NaN (0/0).
NaN == [n |-> 0, d |-> 0]
Ratio(n, d) == [n |-> n \div GCD(n, d), d |-> d \div GCD(n, d)]

Max(a, b) == IF a >= b THEN a ELSE b
Min(a, b) == IF a <= b THEN a ELSE b

\* useState(50).
InitialPosition == Ratio(50, 1)

\* A percentage computed without Math.max(0, ..): negative left of the container.
PercentUnclamped(clientX, left, width) ==
  LET x == Min(clientX - left, width)
  IN  IF width = 0 THEN NaN ELSE Ratio(x * 100, width)

\* A percentage taken from clientX alone, as if the container began at the
\* left edge of the window.
PercentIgnoringLeft(clientX, left, width) ==
  LET x == Max(0, Min(clientX, width))
  IN  IF width = 0 THEN NaN ELSE Ratio(x * 100, width)

\* handleMove: x = Math.max(0, Math.min(clientX - rect.left, rect.width)),
\* percent = (x / rect.width) * 100; with rect.width = 0, x is 0 and 0 / 0 is NaN.
Percent(clientX, left, width) ==
  LET x == Max(0, Min(clientX - left, width))
  IN  IF width = 0 THEN NaN ELSE Ratio(x * 100, width)

VARIABLES
  originalImage,   \* App state: the uploaded photo, or Null
  generatedImage,  \* App state: the latest render, or Null
  isGenerating,    \* App state
  chatHistory,     \* App state: sequence of ChatMessage
  chatInput,       \* App state
  isChatLoading,   \* App state
  chatSession,     \* geminiService module variable: Null-like or a handle
  now,             \* the latest value Date.now() returned
  readers,         \* FileReaders whose onload has not fired: the photos read
  ops,             \* handler invocations suspended at an await
  sliderPosition,  \* CompareSlider state: a Number (InitialPosition unmounted)
  isDragging,      \* CompareSlider state (FALSE while unmounted)
  listeners        \* whether window carries the effect's four listeners

vars == <<originalImage, generatedImage, isGenerating, chatHistory, chatInput,
          isChatLoading, chatSession, now, readers, ops, sliderPosition,
          isDragging, listeners>>

\* chatSession: whether it holds a chat, (history) whether a session has
\* started since that chat was created, and (history) how many chats were
\* created since the last resetChatSession().
NoChat == [live |-> FALSE, stale |-> FALSE, made |-> 0]

\* App renders <CompareSlider> inside the originalImage branch while
\* generatedImage is set; it has no key, so a new render re-renders the same
\* component instance.
Mounted == originalImage # Null /\ generatedImage # Null

\* An effect without the cleanup function: the listeners outlive the viewer.
ListenersLeft(had) == had

\* The window listeners once the viewer is unmounted: the effect's cleanup
\* removes all four.
ListenersAfterUnmount(had) == FALSE

\* The CompareSlider across a step of App: an instance that stays mounted
\* keeps its state and its listeners, a mounted one starts from useState(50),
\* useState(false) and its first effect adds nothing.
Viewer ==
  /\ sliderPosition' = IF Mounted /\ Mounted' THEN sliderPosition ELSE InitialPosition
  /\ isDragging' = IF Mounted /\ Mounted' THEN isDragging ELSE FALSE
  /\ listeners' = IF Mounted /\ Mounted' THEN listeners
                  ELSE ListenersAfterUnmount(listeners)

\* ---------------------------------------------------------------- helpers
Remove(seq, i) == SubSeq(seq, 1, i - 1) \o SubSeq(seq, i + 1, Len(seq))

\* Room for n more turns within the explored history length.
Room(n) == Len(chatHistory) + n <= MaxTurns

\* Iterative editing, the alternative the handler's comment weighs: the
\* current render as source when there is one.
GenSourceChained(orig, render) == IF render # Null THEN render ELSE orig

\* The source image handed to generateReimaginedImage: the closure's
\* originalImage, whatever the current render is.
GenSource(orig, render) == orig

\* A catch block that clears the render.
RenderDropped(prev) == Null

\* generatedImage after a rejected generation: the catch blocks do not set it.
RenderAfterFailure(prev) == prev

\* setIsGenerating(false) inside the try block only: skipped on rejection.
GeneratingKept == isGenerating

\* isGenerating after handleStyleSelect's finally block.
GeneratingAfterStyle == FALSE

\* The upload request flagged as an error turn.
NoImageTurnsFlagged(input, t1, t2) ==
  << Msg(MsId(t1), "user", "%s", input, FALSE),
     Msg(MsId(t2 + 1), "model", "Please upload an image of your room first", "", TRUE) >>

\* The two turns of handleSendMessage's no-image branch.
NoImageTurns(input, t1, t2) ==
  << Msg(MsId(t1), "user", "%s", input, FALSE),
     Msg(MsId(t2 + 1), "model", "Please upload an image of your room first", "", FALSE) >>

\* setIsChatLoading(false) left out: the flag stays as it is.
ChatLoadingLeft == isChatLoading

\* isChatLoading after handleSendMessage's finally block.
ChatLoadingAtEnd == FALSE

\* An acknowledgment held back until the generation has answered.
AckDeferred(prev, ack) == prev

\* chatHistory after the tool-call branch's first setChatHistory, which
\* comes before the call of generateReimaginedImage.
HistoryAtToolCall(prev, ack) == Append(prev, ack)

\* A handler without the early return.
HasImageAlways(img) == TRUE

\* handleStyleSelect's guard: `if (!originalImage) return`.
HasImage(img) == img # Null

\* An update that puts the new turn first.
PrependTurn(prev, m) == <<m>> \o prev

\* setChatHistory(prev => [...prev, m]).
AppendTurn(prev, m) == Append(prev, m)

\* A catch block whose turn carries no isError, as handleStyleSelect's.
ChatErrorTurnUnflagged(t) ==
  Msg(MsId(t), "model", "I encountered an error. Please try again.", "", FALSE)

\* The turn appended by handleSendMessage's catch block.
ChatErrorTurn(t) ==
  Msg(MsId(t), "model", "I encountered an error. Please try again.", "", TRUE)

\* A chat created for every message.
ChatAlwaysCreated(cs) == [live |-> TRUE, stale |-> FALSE, made |-> cs.made + 1]

\* sendMessageToAdvisor: `if (!chatSession) chatSession = ai.chats.create(..)`.
ChatForMessage(cs) ==
  IF cs.live THEN cs ELSE [live |-> TRUE, stale |-> FALSE, made |-> cs.made + 1]

\* An upload that forgets resetChatSession(): the chat outlives its session.
ChatKeptOnUpload(cs) == [cs EXCEPT !.stale = cs.live]

\* chatSession after reader.onload: resetChatSession() drops it.
ChatAfterUpload(cs) == NoChat

\* An upload that appends the welcome turn to the earlier turns.
HistoryKeptOnUpload(prev) == Append(prev, Welcome)

\* chatHistory set by reader.onload.
HistoryOnUpload(prev) == <<Welcome>>

\* ---------------------------------------------------------------- Init
Init ==
  /\ originalImage = Null
  /\ generatedImage = Null
  /\ isGenerating = FALSE
  /\ chatHistory = <<>>
  /\ chatInput = ""
  /\ isChatLoading = FALSE
  /\ chatSession = NoChat
  /\ now = 1
  /\ readers = {}
  /\ ops = <<>>
  /\ sliderPosition = InitialPosition
  /\ isDragging = FALSE
  /\ listeners = FALSE

\* ---------------------------------------------------------------- environment
\* onChange of the chat input, enabled unless isChatLoading || isGenerating.
SetChatInput(s) ==
  /\ ~isChatLoading /\ ~isGenerating
  /\ s # chatInput
  /\ chatInput' = s
  /\ UNCHANGED <<originalImage, generatedImage, isGenerating, chatHistory,
                 isChatLoading, chatSession, now, readers, ops,
                 sliderPosition, isDragging, listeners>>

\* ---------------------------------------------------------------- upload
\* handleFileUpload: the file input is rendered while originalImage is null;
\* a FileReader starts reading the picked file.
HandleFileUpload(p) ==
  /\ originalImage = Null
  /\ p \notin readers
  /\ readers' = readers \cup {p}
  /\ UNCHANGED <<originalImage, generatedImage, isGenerating, chatHistory,
                 chatInput, isChatLoading, chatSession, now, ops,
                 sliderPosition, isDragging, listeners>>

\* reader.onload: the new session starts.  Every invocation still suspended
\* now belongs to an earlier session.
ReaderOnload(p) ==
  /\ p \in readers
  /\ readers' = readers \ {p}
  /\ originalImage' = Photo(p)
  /\ generatedImage' = Null
  /\ chatHistory' = HistoryOnUpload(chatHistory)
  /\ chatSession' = ChatAfterUpload(chatSession)       \* resetChatSession()
  /\ ops' = [i \in DOMAIN ops |-> [ops[i] EXCEPT !.stale = TRUE]]
  /\ UNCHANGED <<isGenerating, chatInput, isChatLoading, now>>
  /\ Viewer

\* The Start Over button, rendered while originalImage is set.
StartOver ==
  /\ originalImage # Null
  /\ originalImage' = Null
  /\ UNCHANGED <<generatedImage, isGenerating, chatHistory, chatInput,
                 isChatLoading, chatSession, now, readers, ops>>
  /\ Viewer

\* ---------------------------------------------------------------- handleStyleSelect
\* Date.now() never goes back: a read returns t with now <= t.
Times == now .. MaxClock

\* A style button clicked with no photo loaded: `if (!originalImage) return`.
StyleSelectNoImage(style) ==
  /\ ~HasImage(originalImage)
  /\ UNCHANGED vars

\* A style button (disabled={isGenerating}) clicked: up to the await.
StyleSelect(style, t) ==
  /\ ~isGenerating
  /\ HasImage(originalImage)
  /\ Room(1)
  /\ Len(ops) < MaxOps
  /\ isGenerating' = TRUE
  /\ chatHistory' = AppendTurn(chatHistory,
       Msg(MsId(t), "model", "Generating %s design...", StyleName(style), FALSE))
  /\ now' = t
  /\ ops' = Append(ops,
       [kind |-> "style", pc |-> "awaitGen", image |-> originalImage, arg |-> style,
        src |-> GenSource(originalImage, generatedImage),
        prompt |-> StylePrompt(style), stale |-> FALSE])
  /\ UNCHANGED <<originalImage, generatedImage, chatInput, isChatLoading,
                 chatSession, readers,
                 sliderPosition, isDragging, listeners>>

\* generateReimaginedImage resolves: the rest of the try block, then finally.
StyleGenResolve(i, t) ==
  /\ ops[i].kind = "style"
  /\ Room(1)
  /\ generatedImage' = Generated(ops[i].src, ops[i].prompt)
  /\ chatHistory' = AppendTurn(chatHistory,
       Msg(MsId(t), "model", "Here is a %s take on your room!", StyleName(ops[i].arg), FALSE))
  /\ now' = t
  /\ isGenerating' = GeneratingAfterStyle
  /\ ops' = Remove(ops, i)
  /\ UNCHANGED <<originalImage, chatInput, isChatLoading, chatSession,
                 readers>>
  /\ Viewer

\* generateReimaginedImage rejects: the catch block (its turn carries no
\* isError), then finally.
StyleGenReject(i, t) ==
  /\ ops[i].kind = "style"
  /\ Room(1)
  /\ generatedImage' = RenderAfterFailure(generatedImage)
  /\ chatHistory' = AppendTurn(chatHistory,
       Msg(MsId(t), "model", "Sorry, I had trouble generating that image.", "", FALSE))
  /\ now' = t
  /\ isGenerating' = GeneratingAfterStyle
  /\ ops' = Remove(ops, i)
  /\ UNCHANGED <<originalImage, chatInput, isChatLoading, chatSession,
                 readers>>
  /\ Viewer

\* ---------------------------------------------------------------- handleSendMessage
\* The send button and the input are disabled while isChatLoading || isGenerating.
CanSend == ~isChatLoading /\ ~isGenerating

\* `if (!chatInput.trim()) return`, reached by the Enter key.
SendBlank ==
  /\ CanSend
  /\ Trim(chatInput) = ""
  /\ UNCHANGED vars

\* The branch `if (!originalImage)`: Date.now() is read twice.
SendNoImage(t1, t2) ==
  /\ CanSend
  /\ Trim(chatInput) # ""
  /\ originalImage = Null
  /\ Room(2)
  /\ t1 <= t2
  /\ chatHistory' = chatHistory \o NoImageTurns(chatInput, t1, t2)
  /\ now' = t2
  /\ chatInput' = ""
  /\ UNCHANGED <<originalImage, generatedImage, isGenerating, isChatLoading,
                 chatSession, readers, ops,
                 sliderPosition, isDragging, listeners>>

\* The main path up to the await; sendMessageToAdvisor creates the chat
\* session when there is none before it suspends on chatSession.sendMessage.
SendMessage(t) ==
  /\ CanSend
  /\ Trim(chatInput) # ""
  /\ originalImage # Null
  /\ Room(1)
  /\ Len(ops) < MaxOps
  /\ chatHistory' = AppendTurn(chatHistory, Msg(MsId(t), "user", "%s", chatInput, FALSE))
  /\ now' = t
  /\ chatInput' = ""
  /\ isChatLoading' = TRUE
  /\ chatSession' = ChatForMessage(chatSession)
  /\ ops' = Append(ops,
       [kind |-> "chat", pc |-> "awaitChat", image |-> originalImage, arg |-> chatInput,
        src |-> Null, prompt |-> "null", stale |-> FALSE])
  /\ UNCHANGED <<originalImage, generatedImage, isGenerating, readers,
                 sliderPosition, isDragging, listeners>>

\* The advisor answers with the updateRoomDesign tool call: acknowledgment
\* turn, setIsGenerating(true), then the await on generateReimaginedImage.
ChatReplyToolCall(i, d, t) ==
  /\ ops[i].kind = "chat" /\ ops[i].pc = "awaitChat"
  /\ Room(1)
  /\ chatHistory' = HistoryAtToolCall(chatHistory,
       Msg(MsId(t), "model", "Sure! I'm updating the design: %s", d, FALSE))
  /\ now' = t
  /\ isGenerating' = TRUE
  /\ ops' = [ops EXCEPT ![i] = [@ EXCEPT !.pc = "awaitGen",
                                         !.src = GenSource(ops[i].image, generatedImage),
                                         !.prompt = d]]
  /\ UNCHANGED <<originalImage, generatedImage, chatInput, isChatLoading,
                 chatSession, readers,
                 sliderPosition, isDragging, listeners>>

\* The advisor answers with text: one assistant turn, then finally.
ChatReplyText(i, txt, t) ==
  /\ ops[i].kind = "chat" /\ ops[i].pc = "awaitChat"
  /\ Room(1)
  /\ chatHistory' = AppendTurn(chatHistory, Msg(MsId(t), "model", "%s", txt, FALSE))
  /\ now' = t
  /\ isChatLoading' = ChatLoadingAtEnd
  /\ ops' = Remove(ops, i)
  /\ UNCHANGED <<originalImage, generatedImage, isGenerating, chatInput,
                 chatSession, readers,
                 sliderPosition, isDragging, listeners>>

\* The advisor answers with neither the tool call nor a non-empty text:
\* neither branch runs, then finally.
ChatReplyEmpty(i) ==
  /\ ops[i].kind = "chat" /\ ops[i].pc = "awaitChat"
  /\ isChatLoading' = ChatLoadingAtEnd
  /\ ops' = Remove(ops, i)
  /\ UNCHANGED <<originalImage, generatedImage, isGenerating, chatHistory,
                 chatInput, chatSession, now, readers,
                 sliderPosition, isDragging, listeners>>

\* sendMessageToAdvisor rejects: the catch block, then finally.
ChatReject(i, t) ==
  /\ ops[i].kind = "chat" /\ ops[i].pc = "awaitChat"
  /\ Room(1)
  /\ chatHistory' = AppendTurn(chatHistory, ChatErrorTurn(t))
  /\ now' = t
  /\ isGenerating' = FALSE
  /\ isChatLoading' = ChatLoadingAtEnd
  /\ ops' = Remove(ops, i)
  /\ UNCHANGED <<originalImage, generatedImage, chatInput, chatSession,
                 readers,
                 sliderPosition, isDragging, listeners>>

\* The generation of a visual edit resolves: the rest of the branch, then finally.
ChatGenResolve(i, t) ==
  /\ ops[i].kind = "chat" /\ ops[i].pc = "awaitGen"
  /\ Room(1)
  /\ generatedImage' = Generated(ops[i].src, ops[i].prompt)
  /\ isGenerating' = FALSE
  /\ chatHistory' = AppendTurn(chatHistory,
       Msg(MsId(t), "model", "I've updated the visualization based on your request.", "", FALSE))
  /\ now' = t
  /\ isChatLoading' = ChatLoadingAtEnd
  /\ ops' = Remove(ops, i)
  /\ UNCHANGED <<originalImage, chatInput, chatSession, readers>>
  /\ Viewer

\* The generation of a visual edit rejects: the catch block, then finally.
ChatGenReject(i, t) ==
  /\ ops[i].kind = "chat" /\ ops[i].pc = "awaitGen"
  /\ Room(1)
  /\ generatedImage' = RenderAfterFailure(generatedImage)
  /\ chatHistory' = AppendTurn(chatHistory, ChatErrorTurn(t))
  /\ now' = t
  /\ isGenerating' = FALSE
  /\ isChatLoading' = ChatLoadingAtEnd
  /\ ops' = Remove(ops, i)
  /\ UNCHANGED <<originalImage, chatInput, chatSession, readers>>
  /\ Viewer

\* ---------------------------------------------------------------- CompareSlider
\* handleMouseMove / handleTouchMove test `if (isDragging)`.
MoveApplies(dragging) == dragging

\* The window listeners after the effect has run for a change of isDragging:
\* the cleanup of the previous run removes them, `if (isDragging)` adds them.
ListenersAfterEffect(dragging) == dragging

\* A release that snaps the divider back to the middle.
PositionSnapsOnUp(pos) == InitialPosition

\* sliderPosition after handleMouseUp / handleTouchEnd, which only call
\* setIsDragging(false).
PositionAfterUp(pos) == pos

\* onMouseDown / onTouchStart on the container.
HandleMouseDown ==
  /\ Mounted
  /\ isDragging' = TRUE
  /\ listeners' = ListenersAfterEffect(TRUE)
  /\ UNCHANGED <<originalImage, generatedImage, isGenerating, chatHistory,
                 chatInput, isChatLoading, chatSession, now, readers, ops,
                 sliderPosition>>

\* mousemove / touchmove anywhere in the window while the listeners are
\* there, handled by handleMove (`if (containerRef.current)`); the
\* container's rect is read when the event is handled.
HandleMouseMove(clientX, left, width) ==
  /\ listeners
  /\ Mounted
  /\ MoveApplies(isDragging)
  /\ sliderPosition' = Percent(clientX, left, width)
  /\ UNCHANGED <<originalImage, generatedImage, isGenerating, chatHistory,
                 chatInput, isChatLoading, chatSession, now, readers, ops,
                 isDragging, listeners>>

\* mouseup / touchend anywhere in the window while the listeners are there.
HandleMouseUp ==
  /\ listeners
  /\ Mounted
  /\ isDragging' = FALSE
  /\ listeners' = ListenersAfterEffect(FALSE)
  /\ sliderPosition' = PositionAfterUp(sliderPosition)
  /\ UNCHANGED <<originalImage, generatedImage, isGenerating, chatHistory,
                 chatInput, isChatLoading, chatSession, now, readers, ops>>

\* ---------------------------------------------------------------- specification
\* The handlers of App that start and end a session and apply a style:
\* the ones that set originalImage, and generatedImage through handleStyleSelect.
SessionNext ==
  \/ \E p \in Photos : HandleFileUpload(p)
  \/ \E p \in Photos : ReaderOnload(p)
  \/ StartOver
  \/ \E style \in Styles : StyleSelectNoImage(style)
  \/ \E style \in Styles, t \in Times : StyleSelect(style, t)
  \/ \E i \in DOMAIN ops, t \in Times : StyleGenResolve(i, t)
  \/ \E i \in DOMAIN ops, t \in Times : StyleGenReject(i, t)

\* The chat input and handleSendMessage with its continuations.
ChatNext ==
  \/ \E s \in Inputs : SetChatInput(s)
  \/ SendBlank
  \/ \E t1 \in Times, t2 \in Times : SendNoImage(t1, t2)
  \/ \E t \in Times : SendMessage(t)
  \/ \E i \in DOMAIN ops, d \in Descs, t \in Times : ChatReplyToolCall(i, d, t)
  \/ \E i \in DOMAIN ops, txt \in Replies, t \in Times : ChatReplyText(i, txt, t)
  \/ \E i \in DOMAIN ops : ChatReplyEmpty(i)
  \/ \E i \in DOMAIN ops, t \in Times : ChatReject(i, t)
  \/ \E i \in DOMAIN ops, t \in Times : ChatGenResolve(i, t)
  \/ \E i \in DOMAIN ops, t \in Times : ChatGenReject(i, t)

\* The handlers of App.
AppNext == SessionNext \/ ChatNext

\* The handlers of CompareSlider.
ViewerNext ==
  \/ HandleMouseDown
  \/ \E clientX \in ClientXs, left \in Lefts, width \in Widths :
       HandleMouseMove(clientX, left, width)
  \/ HandleMouseUp

Next == AppNext \/ ViewerNext

\* The whole program.
Spec == Init /\ [][Next]_vars

\* App with the divider left alone.  No handler of App reads sliderPosition
\* or isDragging and no handler of CompareSlider changes another variable,
\* so the claims about App's own state are checked under AppSpec.
AppSpec == Init /\ [][AppNext]_vars

\* CompareSlider with the part of App that mounts and unmounts it and hands
\* it a new render.  handleSendMessage reaches the viewer only through
\* setGeneratedImage, as handleStyleSelect does; leaving the chat out keeps
\* the state space of the viewer's own claims small.
ViewerSpec == Init /\ [][SessionNext \/ ViewerNext]_vars

\* ---------------------------------------------------------------- properties
Last(seq) == seq[Len(seq)]

\* The suspended invocations waiting on generateReimaginedImage.
GenRequests == {i \in DOMAIN ops : ops[i].pc = "awaitGen"}

\* Some suspended invocation i takes one of its continuation steps.
Resumes(i) ==
  \/ \E t \in Times : StyleGenResolve(i, t) \/ StyleGenReject(i, t)
  \/ \E t \in Times, d \in Descs : ChatReplyToolCall(i, d, t)
  \/ \E t \in Times, txt \in Replies : ChatReplyText(i, txt, t)
  \/ ChatReplyEmpty(i)
  \/ \E t \in Times : ChatReject(i, t) \/ ChatGenResolve(i, t) \/ ChatGenReject(i, t)

\* C1: a generation started in one session that resolves after a new session
\* has started is dropped: the step that resolves it leaves generatedImage as
\* it is (absent, in a session that has no render yet).
C1_StaleResultDropped ==
  [][\A i \in DOMAIN ops : \A t \in Times :
       (ops[i].stale /\ (StyleGenResolve(i, t) \/ ChatGenResolve(i, t)))
         => generatedImage' = generatedImage]_vars

\* C2: at most one generation request of the current session is outstanding
\* at any time.
C2_OneGenerationAtATime ==
  Cardinality({i \in GenRequests : ~ops[i].stale}) <= 1

\* C3: every outstanding generation request was issued with the uploaded
\* photo of its session as source (never an image that a generation
\* produced), and with the style's prompt or the tool call's visualDescription.
C3_GeneratedFromOriginal ==
  \A i \in GenRequests :
    /\ ops[i].src # Null
    /\ ops[i].src.gen = 0
    /\ ops[i].src = ops[i].image
    /\ (~ops[i].stale /\ originalImage # Null) => ops[i].src = originalImage
    /\ ops[i].kind = "style" => ops[i].prompt = StylePrompt(ops[i].arg)
    /\ ops[i].kind = "chat" => ops[i].prompt \in Descs

\* A request of the running session is outstanding while a render exists.
C3_Witness ==
  /\ generatedImage # Null
  /\ \E i \in GenRequests : ~ops[i].stale

\* C4: no step of an operation whose generation is rejected changes
\* generatedImage: starting the operation, the tool-call reply and the
\* rejection itself all leave it as it was.
C4_RenderKeptOnFailure ==
  [][(\/ \E style \in Styles, t \in Times : StyleSelect(style, t)
      \/ \E t \in Times : SendMessage(t)
      \/ \E i \in DOMAIN ops, d \in Descs, t \in Times : ChatReplyToolCall(i, d, t)
      \/ \E i \in DOMAIN ops, t \in Times : StyleGenReject(i, t) \/ ChatGenReject(i, t))
     => generatedImage' = generatedImage]_vars

\* A generation was rejected and the earlier render is still shown.
C4_Witness ==
  /\ generatedImage # Null
  /\ chatHistory # <<>>
  /\ Last(chatHistory).text[1] = "Sorry, I had trouble generating that image."

\* C5: when the generation of handleStyleSelect is rejected, the step appends
\* exactly one turn, that turn has isError = TRUE, and isGenerating is FALSE
\* afterwards.
C5_StyleFailureFlagged ==
  [][\A i \in DOMAIN ops : \A t \in Times :
       StyleGenReject(i, t)
         => /\ Len(chatHistory') = Len(chatHistory) + 1
            /\ Last(chatHistory').isError
            /\ ~isGenerating']_vars

\* C6: a non-blank message sent with no photo loaded appends the user turn
\* and the upload request, neither flagged as an error, starts no request to
\* the advisor or the image generator, and changes neither flag nor the render.
C6_NoSessionMessage ==
  [][\A t1 \in Times : \A t2 \in Times :
       SendNoImage(t1, t2)
         => /\ Len(chatHistory') = Len(chatHistory) + 2
            /\ SubSeq(chatHistory', 1, Len(chatHistory)) = chatHistory
            /\ chatHistory'[Len(chatHistory) + 1].role = "user"
            /\ chatHistory'[Len(chatHistory) + 1].text = <<"%s", chatInput>>
            /\ ~chatHistory'[Len(chatHistory) + 1].isError
            /\ chatHistory'[Len(chatHistory) + 2].role = "model"
            /\ chatHistory'[Len(chatHistory) + 2].text[1]
                 = "Please upload an image of your room first"
            /\ ~chatHistory'[Len(chatHistory) + 2].isError
            /\ ops' = ops
            /\ chatSession' = chatSession
            /\ isChatLoading' = isChatLoading
            /\ isGenerating' = isGenerating
            /\ generatedImage' = generatedImage]_vars

\* The upload request was appended while no photo is loaded.
C6_Witness ==
  /\ originalImage = Null
  /\ Len(chatHistory) >= 2
  /\ Last(chatHistory).text[1] = "Please upload an image of your room first"
  /\ chatHistory[Len(chatHistory) - 1].role = "user"

\* C7: the step that ends an operation leaves the flags that operation set
\* FALSE, and with no operation outstanding both flags are FALSE.
C7_FlagsCleared ==
  /\ []((ops = <<>>) => (~isGenerating /\ ~isChatLoading))
  /\ [][\A i \in DOMAIN ops : \A t \in Times :
          /\ (StyleGenResolve(i, t) \/ StyleGenReject(i, t)) => ~isGenerating'
          /\ ((\E txt \in Replies : ChatReplyText(i, txt, t))
                \/ ChatReplyEmpty(i) \/ ChatReject(i, t)) => ~isChatLoading'
          /\ (ChatGenResolve(i, t) \/ ChatGenReject(i, t))
               => (~isGenerating' /\ ~isChatLoading')]_vars

\* Every operation has ended, one of them in a failure.
C7_Witness ==
  /\ ops = <<>>
  /\ \E k \in DOMAIN chatHistory :
       chatHistory[k].text[1] \in {"Sorry, I had trouble generating that image.",
                                   "I encountered an error. Please try again."}

\* C8: reader.onload sets originalImage to the uploaded photo, clears
\* generatedImage, leaves exactly the welcome turn and drops the chat session,
\* so that the next message sent creates a chat of the new session.
C8_StartSession ==
  /\ [][\A p \in Photos :
          ReaderOnload(p)
            => /\ originalImage' = Photo(p)
               /\ generatedImage' = Null
               /\ chatHistory' = <<Welcome>>
               /\ ~chatSession'.live]_vars
  /\ [](chatSession.live => ~chatSession.stale)

\* A session has just started while a message of the previous one was still
\* awaiting its reply: no render, the welcome turn alone, no chat session.
C8_Witness ==
  /\ originalImage # Null
  /\ generatedImage = Null
  /\ chatHistory = <<Welcome>>
  /\ ~chatSession.live
  /\ \E i \in DOMAIN ops : ops[i].stale /\ ops[i].kind = "chat"

\* C9: whenever no photo is loaded (after Start Over in particular) there is
\* no render, no turn of the previous session and no chat session.
C9_StartOverDiscards ==
  (originalImage = Null)
    => /\ generatedImage = Null
       /\ \A k \in DOMAIN chatHistory : chatHistory[k] # Welcome
       /\ ~chatSession.live

\* C10: an invocation that resumes after a new session has started appends no
\* turn and issues no generation request.
C10_StaleResumeInert ==
  [][\A i \in DOMAIN ops :
       (ops[i].stale /\ Resumes(i))
         => /\ chatHistory' = chatHistory
            /\ Cardinality({j \in DOMAIN ops' : ops'[j].pc = "awaitGen"})
                 <= Cardinality(GenRequests)]_vars

\* C11: a failure while a message is outstanding (the advisor rejects, or the
\* generation of a visual edit rejects) is caught by the handler, which ends;
\* it appends exactly one turn, an assistant turn with isError set, and
\* leaves isChatLoading and isGenerating false.
C11_ChatFailureHandled ==
  [][\A i \in DOMAIN ops : \A t \in Times :
       (ChatReject(i, t) \/ ChatGenReject(i, t))
         => /\ Len(chatHistory') = Len(chatHistory) + 1
            /\ SubSeq(chatHistory', 1, Len(chatHistory)) = chatHistory
            /\ Last(chatHistory').role = "model"
            /\ Last(chatHistory').isError
            /\ ~isChatLoading'
            /\ ~isGenerating'
            /\ Len(ops') = Len(ops) - 1]_vars

\* The error turn of a failed message is the last turn and both flags are down.
C11_Witness ==
  /\ chatHistory # <<>>
  /\ Last(chatHistory).text[1] = "I encountered an error. Please try again."
  /\ Last(chatHistory).isError
  /\ ~isChatLoading
  /\ ~isGenerating

\* C12: every reply of the advisor appends an assistant turn.  A text reply
\* appends exactly one assistant turn carrying the text, issues no generation
\* request and leaves generatedImage and isGenerating unchanged; the
\* updateRoomDesign tool call appends one acknowledgment turn quoting the
\* visualDescription and issues exactly one generation request.
C12_EveryReplyAnswered ==
  [][\A i \in DOMAIN ops :
       /\ (\/ ChatReplyEmpty(i)
           \/ \E txt \in Replies, t \in Times : ChatReplyText(i, txt, t)
           \/ \E d \in Descs, t \in Times : ChatReplyToolCall(i, d, t))
            => /\ Len(chatHistory') = Len(chatHistory) + 1
               /\ SubSeq(chatHistory', 1, Len(chatHistory)) = chatHistory
               /\ Last(chatHistory').role = "model"
       /\ \A txt \in Replies, t \in Times : ChatReplyText(i, txt, t)
            => /\ Last(chatHistory').text = <<"%s", txt>>
               /\ Cardinality({j \in DOMAIN ops' : ops'[j].pc = "awaitGen"})
                    = Cardinality(GenRequests)
               /\ generatedImage' = generatedImage
               /\ isGenerating' = isGenerating
       /\ \A d \in Descs, t \in Times : ChatReplyToolCall(i, d, t)
            => /\ Last(chatHistory').text = <<"Sure! I'm updating the design: %s", d>>
               /\ Cardinality({j \in DOMAIN ops' : ops'[j].pc = "awaitGen"})
                    = Cardinality(GenRequests) + 1
               /\ ops'[i].prompt = d]_vars

\* ---------------------------------------------------------------- CompareSlider properties
\* A Number that is not NaN and lies in [0, 100].
InRange(pos) == pos.d > 0 /\ 0 <= pos.n /\ pos.n <= 100 * pos.d

\* A move event handled with a container of zero width, of positive width.
ZeroWidthMove == \E clientX \in ClientXs, left \in Lefts : HandleMouseMove(clientX, left, 0)
PositiveWidthMove ==
  \E clientX \in ClientXs, left \in Lefts, width \in Widths \ {0} :
    HandleMouseMove(clientX, left, width)

\* C13: whatever the presses, moves and releases and wherever the pointer is,
\* with a container of positive width sliderPosition stays within [0, 100]:
\* it starts there, a move with a positive width puts it there, and every
\* other step except a move with zero width keeps it there.
C13_PositionInRange ==
  /\ InRange(sliderPosition)
  /\ [][/\ PositiveWidthMove => InRange(sliderPosition')
        /\ (InRange(sliderPosition) /\ ~ZeroWidthMove) => InRange(sliderPosition')]_vars

\* The divider dragged past the right edge: clamped to 100.
C13_Witness ==
  /\ Mounted
  /\ isDragging
  /\ sliderPosition = Ratio(100, 1)

\* C14: a move handled while the container has zero width divides nothing by
\* zero: it sets sliderPosition to 0 or leaves it as it is, a number in [0, 100].
C14_ZeroWidthSafe ==
  [][ZeroWidthMove
       => /\ sliderPosition' = Ratio(0, 1) \/ sliderPosition' = sliderPosition
          /\ InRange(sliderPosition')]_vars

\* C15: the viewer is Idle or Dragging.  While Idle no step changes
\* sliderPosition (short of the viewer being unmounted); a move is handled
\* only while Dragging, and with a container of positive width it sets
\* sliderPosition to clamp((clientX - left) / width, 0, 1) * 100 for the left
\* and width read at that event.
C15_MoveOnlyWhileDragging ==
  [][/\ (~isDragging /\ (Mounted => Mounted')) => sliderPosition' = sliderPosition
     /\ \A clientX \in ClientXs, left \in Lefts, width \in Widths \ {0} :
          HandleMouseMove(clientX, left, width)
            => /\ isDragging /\ isDragging'
               /\ sliderPosition' =
                    IF clientX - left <= 0 THEN Ratio(0, 1)
                    ELSE IF clientX - left >= width THEN Ratio(100, 1)
                    ELSE Ratio((clientX - left) * 100, width)]_vars

\* The divider dragged past the left edge: clamped to 0.
C15_Witness ==
  /\ Mounted
  /\ isDragging
  /\ sliderPosition = Ratio(0, 1)

\* C16: a release while Dragging makes the viewer Idle; the release and the
\* press leave sliderPosition as it is.
C16_PressReleaseKeepPosition ==
  [][/\ HandleMouseUp
          => isDragging /\ ~isDragging' /\ sliderPosition' = sliderPosition
     /\ HandleMouseDown
          => isDragging' /\ sliderPosition' = sliderPosition]_vars

\* Released after a drag to the right edge: Idle, the divider still at 100.
C16_Witness ==
  /\ Mounted
  /\ ~isDragging
  /\ sliderPosition = Ratio(100, 1)

\* C17: sliderPosition is 50 whenever a new pair of images is first shown:
\* every step in which a render arrives (the first of a session or one that
\* replaces the previous render) leaves the divider at 50, wherever in
\* [0, 100] it was.
C17_PositionResetOnNewRender ==
  [][\A i \in DOMAIN ops : \A t \in Times :
       (InRange(sliderPosition) /\ (StyleGenResolve(i, t) \/ ChatGenResolve(i, t)))
         => sliderPosition' = InitialPosition]_vars

\* ---------------------------------------------------------------- App properties, continued
IsPrefix(s, t) == Len(s) <= Len(t) /\ SubSeq(t, 1, Len(s)) = s

\* C18: chatHistory is append-only: across every step other than the start
\* of a session (reader.onload) the history before the step is a prefix of
\* the history after it.
C18_HistoryAppendOnly ==
  [][(\E p \in Photos : ReaderOnload(p)) \/ IsPrefix(chatHistory, chatHistory')]_vars

\* Turns were appended to the welcome turn of the running session.
C18_Witness ==
  /\ originalImage # Null
  /\ Len(chatHistory) >= 3
  /\ chatHistory[1] = Welcome

\* C19: the chat is created lazily, by the first message forwarded in a
\* session: a session starts without one, a forwarded message creates one
\* only when there is none and otherwise uses the one there is, nothing else
\* creates one; so at most one is created between two resets, and the chat
\* in use was never created before the running session started.
C19_ChatCreatedOncePerSession ==
  /\ [](/\ chatSession.made <= 1
        /\ chatSession.live <=> chatSession.made = 1
        /\ chatSession.live => ~chatSession.stale)
  /\ [][/\ (\E p \in Photos : ReaderOnload(p)) => ~chatSession'.live
        /\ (\E t \in Times : SendMessage(t))
             => /\ chatSession'.live
                /\ chatSession.live => chatSession' = chatSession
        /\ (~chatSession.live /\ chatSession'.live) => \E t \in Times : SendMessage(t)]_vars

\* A second message of a session is outstanding on the chat the first created.
C19_Witness ==
  /\ chatSession.live
  /\ \E i \in DOMAIN ops : ops[i].kind = "chat" /\ ~ops[i].stale
  /\ \E k \in DOMAIN chatHistory :
       k < Len(chatHistory) /\ chatHistory[k].role = "user" /\ Last(chatHistory).role = "user"

\* The suspended invocations of handleStyleSelect.
StyleOps(o) == {j \in DOMAIN o : o[j].kind = "style"}

\* C20: handleStyleSelect called while originalImage is absent does nothing:
\* the call leaves chatHistory, isGenerating, generatedImage and the
\* suspended invocations as they are, and no step taken while originalImage
\* is absent starts a style generation or appends its "Generating" turn.
C20_StyleWithoutImageNoOp ==
  [][originalImage = Null
       => /\ \A style \in Styles :
               StyleSelectNoImage(style)
                 => UNCHANGED <<chatHistory, isGenerating, generatedImage, ops>>
          /\ Cardinality(StyleOps(ops')) <= Cardinality(StyleOps(ops))
          /\ Len(chatHistory') > Len(chatHistory)
               => Last(chatHistory').text[1] # "Generating %s design..."]_vars

\* No photo, after Start Over in a session that had a render: the state a
\* style click must leave alone.
C20_Witness ==
  /\ originalImage = Null
  /\ generatedImage # Null
  /\ ~isGenerating
  /\ ops = <<>>

\* The places in chatHistory of the turns with the given text.
TurnsWith(text) == {k \in DOMAIN chatHistory : chatHistory[k].text = text}

\* C21: turns are appended in the order their steps are handled.  While an
\* invocation of the running session is suspended, the turns it has appended
\* are in the history: the "Generating" turn of a style for as long as its
\* generation is outstanding, the user turn of a message, and after it the
\* acknowledgment for as long as the generation of a visual edit is
\* outstanding.  The acknowledgment is appended by the step that issues the
\* request, and the confirmation or error turn is appended last, by the step
\* that ends the invocation.
C21_TurnsInHandlingOrder ==
  /\ [](\A i \in DOMAIN ops :
          ~ops[i].stale =>
            /\ ops[i].kind = "style"
                 => TurnsWith(<<"Generating %s design...", StyleName(ops[i].arg)>>) # {}
            /\ ops[i].kind = "chat"
                 => \E k \in TurnsWith(<<"%s", ops[i].arg>>) :
                      /\ chatHistory[k].role = "user"
                      /\ ops[i].pc = "awaitGen"
                           => \E l \in TurnsWith(<<"Sure! I'm updating the design: %s",
                                                    ops[i].prompt>>) : k < l)
  /\ [][\A i \in DOMAIN ops : \A t \in Times :
         /\ (StyleGenResolve(i, t) \/ StyleGenReject(i, t)
               \/ ChatGenResolve(i, t) \/ ChatGenReject(i, t))
              => /\ chatHistory' = Append(chatHistory, Last(chatHistory'))
                 /\ Last(chatHistory').text[1] \in
                      {"Here is a %s take on your room!",
                       "Sorry, I had trouble generating that image.",
                       "I've updated the visualization based on your request.",
                       "I encountered an error. Please try again."}
                 /\ Len(ops') = Len(ops) - 1
         /\ \A d \in Descs : ChatReplyToolCall(i, d, t)
              => /\ chatHistory' = Append(chatHistory, Last(chatHistory'))
                 /\ Last(chatHistory').text = <<"Sure! I'm updating the design: %s", d>>
                 /\ ops[i].pc = "awaitChat" /\ ops'[i].pc = "awaitGen"]_vars

\* The generation of a visual edit is outstanding: the user turn and then the
\* acknowledgment are in the history.
C21_Witness ==
  /\ \E i \in DOMAIN ops : ops[i].kind = "chat" /\ ops[i].pc = "awaitGen" /\ ~ops[i].stale
  /\ Len(chatHistory) >= 3
  /\ chatHistory[Len(chatHistory) - 1].role = "user"
  /\ Last(chatHistory).text[1] = "Sure! I'm updating the design: %s"

\* The suspended invocations of handleSendMessage.
ChatOps(o) == {j \in DOMAIN o : o[j].kind = "chat"}

\* C22: isChatLoading is true exactly while a message is being handled: the
\* step that appends the user turn sets it, it stays true while the message
\* waits for the advisor and for the generation of a visual edit, and the
\* step that ends the handling (text reply, empty reply, visual edit done,
\* advisor failure, generation failure) clears it; no second message is
\* handled meanwhile.
C22_ChatLoadingSpansTurn ==
  /\ [](/\ isChatLoading <=> ChatOps(ops) # {}
        /\ Cardinality(ChatOps(ops)) <= 1)
  /\ [][/\ (\E t \in Times : SendMessage(t))
             => /\ ~isChatLoading /\ isChatLoading'
                /\ Last(chatHistory').role = "user"
                /\ Len(chatHistory') = Len(chatHistory) + 1
        /\ \A i \in DOMAIN ops :
             /\ (\E d \in Descs, t \in Times : ChatReplyToolCall(i, d, t))
                  => isChatLoading /\ isChatLoading'
             /\ (\/ ChatReplyEmpty(i)
                 \/ \E txt \in Replies, t \in Times : ChatReplyText(i, txt, t)
                 \/ \E t \in Times : ChatReject(i, t) \/ ChatGenResolve(i, t)
                                        \/ ChatGenReject(i, t))
                  => isChatLoading /\ ~isChatLoading' /\ ChatOps(ops') = {}]_vars

\* A visual edit has been handled to its end: the flag is down again.
C22_Witness ==
  /\ ~isChatLoading
  /\ chatHistory # <<>>
  /\ Last(chatHistory).text[1] = "I've updated the visualization based on your request."

\* C23: isGenerating is true in every state in which a generation request
\* is outstanding: no step clears it while the request of another
\* invocation has not yet answered.
C23_GeneratingWhileOutstanding ==
  GenRequests # {} => isGenerating

\* C24: the window listeners are there exactly while the viewer is
\* Dragging: a press adds them, and every way out of Dragging removes them,
\* the release anywhere in the window as well as the viewer being unmounted
\* in the middle of a drag.
C24_ListenersWhileDragging ==
  /\ [](/\ listeners <=> isDragging
        /\ listeners => Mounted)
  /\ [][/\ HandleMouseDown => listeners'
        /\ HandleMouseUp => listeners /\ ~listeners' /\ ~isDragging'
        /\ (isDragging /\ ~Mounted') => ~listeners']_vars

\* In the middle of a drag that has moved the divider: the listeners are there.
C24_Witness ==
  /\ Mounted
  /\ isDragging
  /\ listeners
  /\ sliderPosition # InitialPosition

\* id a comes before id b: 'init' is the first turn's, the others are clock
\* values in decimal.
IdBefore(a, b) == a[1] = "init" \/ (b[1] = "ms" /\ a[2] <= b[2])

\* C25: in the history of the running session the turn ids are pairwise
\* distinct and non-decreasing in append order, also when two turns are
\* appended at the same clock value.
C25_TurnIdsDistinctOrdered ==
  originalImage # Null
    => \A k \in DOMAIN chatHistory : \A l \in DOMAIN chatHistory :
         k < l => /\ chatHistory[k].id # chatHistory[l].id
                  /\ IdBefore(chatHistory[k].id, chatHistory[l].id)

====
